---- MODULE Spec2Model ----
(***************************************************************************)
(* Flattening of FHIR Observation resources into a tabular FHIRDataFrame   *)
(* and the validation of such frames                                       *)
(* (data_flattening/fhir_resources_flattener.py).                          *)
(*                                                                         *)
(* Python values are records tagged with their type in field t, so that    *)
(* values of different types can be compared.  A dict is a record whose    *)
(* absent keys hold None (the resources' dict() leaves out unset fields).  *)
(***************************************************************************)
EXTENDS Integers, Sequences, FiniteSets, TLC

\* ------------------------------------------------------------------ bounds
\* longest batch of resources handed to a flattener
MaxBatch == 2
\* most rows of a table handed directly to FHIRDataFrame
MaxRows == 2

\* ----------------------------------------------------------- Python values
None == [t |-> "NoneType"]
Text(s) == [t |-> "str", s |-> s]
Num(n) == [t |-> "int", n |-> n]
\* a str holding an ISO-8601 text: year, month, day and a time-of-day part
\* (hh = -1 when the text has no time-of-day part)
IsoText(y, m, d, hh) == [t |-> "str", y |-> y, m |-> m, d |-> d, hh |-> hh]
Date(y, m, d) == [t |-> "date", y |-> y, m |-> m, d |-> d]
DateTime(y, m, d, hh) == [t |-> "datetime", y |-> y, m |-> m, d |-> d, hh |-> hh]
NaT == [t |-> "NaTType"]

\* the outcome of a call: a returned value or a raised exception
Return(v) == [t |-> "return", value |-> v]
Raise(exc, args) == [t |-> "raise", exc |-> exc, args |-> args]

Range(s) == {s[k] : k \in DOMAIN s}

\* the messages of the ValueErrors raised, without the values they end with
MsgUnsupported == "Unsupported resource type"
MsgNoFlattener == "No flattener found for resource type"
MsgMissing == "The DataFrame is missing required columns"
MsgNotDate == "The EffectiveDateTime column is not of type"
MsgNotStrings == "column does not contain strings"

\* Python truthiness of the values `not x` is applied to
Truthy(v) == v # None /\ v # Text("")

\* -------------------------------------------------------------- the enums
USER_ID == "UserId"
EFFECTIVE_DATE_TIME == "EffectiveDateTime"
QUANTITY_NAME == "QuantityName"
QUANTITY_UNIT == "QuantityUnit"
QUANTITY_VALUE == "QuantityValue"
LOINC_CODE == "LoincCode"
DISPLAY == "Display"
APPLE_HEALTH_KIT_CODE == "AppleHealthKitCode"

OBSERVATION == [t |-> "FHIRResourceType", name |-> "OBSERVATION", value |-> "Observation"]
QUESTIONNAIRE_RESPONSE ==
    [t |-> "FHIRResourceType", name |-> "QUESTIONNAIRE_RESPONSE",
     value |-> "QuestionnaireResponse"]
FHIRResourceType == {OBSERVATION, QUESTIONNAIRE_RESPONSE}

\* the dict ResourceFlattener.__init__ builds: resource type -> column list
ObservationColumns ==
    <<USER_ID, EFFECTIVE_DATE_TIME, QUANTITY_NAME, QUANTITY_UNIT,
      QUANTITY_VALUE, LOINC_CODE, DISPLAY, APPLE_HEALTH_KIT_CODE>>
QuestionnaireResponseColumns ==
    <<USER_ID, EFFECTIVE_DATE_TIME, QUANTITY_NAME, QUANTITY_VALUE, LOINC_CODE>>
resource_columns ==
    [k \in FHIRResourceType |->
        IF k = OBSERVATION THEN ObservationColumns ELSE QuestionnaireResponseColumns]

\* the f-string {resource_type.name}: an attribute read, which raises on a
\* value that has no attribute `name` (a str, for one)
HasName(v) == "name" \in DOMAIN v

\* ------------------------------------------------------- the resources
List(s) == [t |-> "list", items |-> s]
Coding(c, d) == [code |-> c, display |-> d]
Period(s) == [start |-> s]
Code(c) == [coding |-> c]
Reference(i) == [id |-> i]
Quantity(u, v) == [unit |-> u, value |-> v]

Resource(rt, edt, per, code, subj, vq) ==
    [resource_type |-> rt, effectiveDateTime |-> edt, effectivePeriod |-> per,
     code |-> code, subject |-> subj, valueQuantity |-> vq]

Loinc == Coding(Text("8867-4"), Text("Heart rate"))
HealthKit == Coding(Text("HKQuantityTypeIdentifierHeartRate"), Text("Heart Rate"))
Snomed == Coding(Text("364075005"), Text("Heart rate (observable entity)"))
NoDisplay == Coding(Text("8867-4"), None)

\* values of effectiveDateTime: unset, empty, a timestamp, an impossible day
EffectiveDateTimes ==
    {None, Text(""), IsoText(2024, 2, 20, 10), IsoText(2023, 2, 29, -1)}
\* values of effectivePeriod: unset, without start, a day, an unparseable text
EffectivePeriods ==
    {None, Period(None), Period(IsoText(2024, 1, 15, -1)), Period(Text("n/a"))}
Codes ==
    {None, Code(None), Code(List(<<>>)), Code(List(<<Loinc>>)),
     Code(List(<<Loinc, HealthKit>>)), Code(List(<<Loinc, HealthKit, Snomed>>)),
     Code(List(<<NoDisplay>>))}
Subjects == {None, Reference(None), Reference(Text("u1")), Reference(Text("u2"))}
Quantities ==
    {None, Quantity(None, Num(72)), Quantity(Text("beats/minute"), Num(72))}
\* resource_type of a record: the str the resource classes carry, or an enum member
ResourceTypes ==
    {Text("Observation"), Text("QuestionnaireResponse"), Text("Patient"),
     OBSERVATION, QUESTIONNAIRE_RESPONSE}

BaseDate == IsoText(2024, 2, 20, 10)
BaseCode == Code(List(<<Loinc, HealthKit>>))
BaseSubject == Reference(Text("u1"))
BaseQuantity == Quantity(Text("beats/minute"), Num(72))

\* the records batches are drawn from: a well-formed Observation with one
\* group of fields varied at a time, and one record lacking everything
Resources ==
    {Resource(Text("Observation"), e, p, BaseCode, BaseSubject, BaseQuantity) :
        e \in EffectiveDateTimes, p \in EffectivePeriods}
    \cup {Resource(Text("Observation"), BaseDate, None, c, BaseSubject, BaseQuantity) :
        c \in Codes}
    \cup {Resource(Text("Observation"), BaseDate, None, BaseCode, s, BaseQuantity) :
        s \in Subjects}
    \cup {Resource(Text("Observation"), BaseDate, None, BaseCode, BaseSubject, q) :
        q \in Quantities}
    \cup {Resource(rt, BaseDate, None, BaseCode, BaseSubject, BaseQuantity) :
        rt \in ResourceTypes}
    \cup {Resource(Text("Observation"), None, None, None, None, None)}

RECURSIVE SeqsUpTo(_, _)
SeqsUpTo(S, n) ==
    IF n = 0 THEN {<<>>}
    ELSE LET shorter == SeqsUpTo(S, n - 1)
         IN shorter \cup {Append(q, x) : q \in {r \in shorter : Len(r) = n - 1}, x \in S}

Batches == SeqsUpTo(Resources, MaxBatch)

\* ------------------------------------------- ObservationFlattener.flatten
\* effective_datetime of lines 307-310: effectiveDateTime unless it is falsy
\* (unset or empty), then the start of effectivePeriod, None without either
\* a variant that never falls back to effectivePeriod
EffectiveOfNoFallback(observation) ==
    observation.effectiveDateTime
EffectiveOf(observation) ==
    IF Truthy(observation.effectiveDateTime)
    THEN observation.effectiveDateTime
    ELSE IF observation.effectivePeriod = None
         THEN None
         ELSE observation.effectivePeriod.start

\* the four cells read from the coding list (lines 313-324)
LoincCodeOf(coding) == IF Len(coding) > 0 THEN coding[1].code ELSE Text("")
DisplayOf(coding) == IF Len(coding) > 0 THEN coding[1].display ELSE Text("")
\* a variant that never looks at the second entry
AppleHealthKitCodeOfFirstOnly(coding) ==
    IF Len(coding) > 0 THEN coding[1].code ELSE Text("")
AppleHealthKitCodeOf(coding) ==
    IF Len(coding) > 1 THEN coding[2].code
    ELSE IF Len(coding) > 0 THEN coding[1].code ELSE Text("")
QuantityNameOf(coding) ==
    IF Len(coding) > 1 THEN coding[2].display
    ELSE IF Len(coding) > 0 THEN coding[1].display ELSE Text("")

\* the first of the four reads that finds its key unset, <<>> when none does:
\* the key lookups of lines 313-324 in the order they are evaluated
CodingReads(coding) ==
    IF Len(coding) = 0 THEN <<>>
    ELSE LET k == IF Len(coding) > 1 THEN 2 ELSE 1
         IN <<<<1, "code">>, <<1, "display">>, <<k, "code">>, <<k, "display">>>>
FailedCodingReads(coding) ==
    SelectSeq(CodingReads(coding), LAMBDA r : coding[r[1]][r[2]] = None)

\* one pass of the loop body, lines 307-341: the row of one observation, or
\* the KeyError / AttributeError of the first lookup that fails
FlattenEntry(observation) ==
    IF observation.code = None THEN Raise("KeyError", <<"code">>)
    ELSE IF observation.code.coding = None THEN Raise("KeyError", <<"coding">>)
    ELSE LET coding == observation.code.coding.items
             failed == FailedCodingReads(coding)
             effective_datetime == EffectiveOf(observation)
         IN IF failed # <<>> THEN Raise("KeyError", <<failed[1][2]>>)
            ELSE IF observation.subject = None THEN Raise("AttributeError", <<"id">>)
            ELSE IF observation.valueQuantity = None
                 THEN Raise("KeyError", <<"valueQuantity">>)
            ELSE IF observation.valueQuantity.unit = None
                 THEN Raise("KeyError", <<"unit">>)
            ELSE IF observation.valueQuantity.value = None
                 THEN Raise("KeyError", <<"value">>)
            ELSE Return(
                [UserId |-> observation.subject.id,
                 EffectiveDateTime |->
                    IF Truthy(effective_datetime) THEN effective_datetime ELSE None,
                 QuantityName |-> QuantityNameOf(coding),
                 QuantityUnit |-> observation.valueQuantity.unit,
                 QuantityValue |-> observation.valueQuantity.value,
                 LoincCode |-> LoincCodeOf(coding),
                 Display |-> DisplayOf(coding),
                 AppleHealthKitCode |-> AppleHealthKitCodeOf(coding)])

\* pd.to_datetime(..., errors="coerce").dt.date on one cell: the calendar day
\* of a text that parses, NaT for None and for a text that does not parse
IsLeap(y) == (y % 4 = 0 /\ y % 100 # 0) \/ y % 400 = 0
DaysInMonth(y, m) ==
    IF m = 2 THEN (IF IsLeap(y) THEN 29 ELSE 28)
    ELSE IF m \in {4, 6, 9, 11} THEN 30 ELSE 31
Parses(v) ==
    /\ DOMAIN v = {"t", "y", "m", "d", "hh"}
    /\ v.m \in 1..12
    /\ v.d \in 1..DaysInMonth(v.y, v.m)
    /\ v.hh \in -1..23
ToDate(v) == IF Parses(v) THEN Date(v.y, v.m, v.d) ELSE NaT

\* ------------------------------------------------------------ pd.DataFrame
Bool(b) == [t |-> "bool", b |-> b]
NaN == [t |-> "float", nan |-> TRUE]

\* the dtype pandas infers for a column built from Python objects: int64 for
\* ints alone, float64 for ints with None among them, object for the rest
InferDtype(cells) ==
    LET ts == {cells[k].t : k \in DOMAIN cells}
    IN IF ts = {"int"} THEN "int64"
       ELSE IF ts = {"int", "NoneType"} THEN "float64"
       ELSE "object"

\* a table: its column headers in order, its rows (each a record keyed by the
\* headers) and the dtype of each column;  pd.DataFrame(list of dicts) takes
\* the headers from the dicts, and None in a float64 column is stored as NaN
DataFrame(columns, rows) ==
    LET dtypes == [c \in Range(columns) |->
                      InferDtype([k \in DOMAIN rows |-> rows[k][c]])]
    IN [columns |-> columns,
        rows |-> [k \in DOMAIN rows |->
                    [c \in Range(columns) |->
                        IF dtypes[c] = "float64" /\ rows[k][c] = None
                        THEN NaN ELSE rows[k][c]]],
        dtypes |-> dtypes]

\* lines 345-348: the table of the rows, its EffectiveDateTime column parsed
\* into days;  a table of no rows has no such column and the read of it raises
FlattenedFrame(flattened_data) ==
    IF flattened_data = <<>> THEN Raise("KeyError", <<EFFECTIVE_DATE_TIME>>)
    ELSE LET flattened_df == DataFrame(ObservationColumns, flattened_data)
         IN Return(
             [flattened_df EXCEPT !.rows =
                 [k \in DOMAIN flattened_df.rows |->
                     [flattened_df.rows[k] EXCEPT
                         !.EffectiveDateTime = ToDate(@)]],
              !.dtypes = [@ EXCEPT ![EFFECTIVE_DATE_TIME] = "object"]])

\* ------------------------------------- ResourceFlattener and FHIRDataFrame
\* ResourceFlattener.__init__, lines 224-246
ResourceFlattenerInit(resource_type) ==
    IF resource_type \notin DOMAIN resource_columns
    THEN IF HasName(resource_type)
         THEN Raise("ValueError", <<MsgUnsupported, resource_type.name>>)
         ELSE Raise("AttributeError", <<"name">>)
    ELSE Return([t |-> "ResourceFlattener", resource_type |-> resource_type,
                 resource_columns |-> resource_columns])

\* FHIRDataFrame.__init__, lines 124-132
FHIRDataFrameInit(data, resource_type) ==
    LET flattener == ResourceFlattenerInit(resource_type)
    IN IF flattener.t = "raise" THEN flattener
       ELSE IF resource_type \notin DOMAIN flattener.value.resource_columns
       THEN Raise("ValueError", <<MsgUnsupported>>)
       ELSE Return([t |-> "FHIRDataFrame", data_frame |-> data,
                    resource_type |-> resource_type,
                    resource_columns |-> flattener.value.resource_columns])

\* ------------------------------------------ FHIRDataFrame.validate_columns
\* isinstance(d, date): date itself and its subclasses, which datetime is and
\* with it the Timestamp and NaT of pandas
IsInstanceDate(d) == d.t \in {"date", "datetime", "NaTType"}

is_object_dtype(df, column) == df.dtypes[column] = "object"
\* an object column counts as a string column when all it holds is str
is_string_dtype(df, column) ==
    /\ df.dtypes[column] = "object"
    /\ \A k \in DOMAIN df.rows : df.rows[k][column].t = "str"

\* lines 155-157
RequiredColumns(frame) ==
    IF frame.resource_type \in DOMAIN frame.resource_columns
    THEN frame.resource_columns[frame.resource_type]
    ELSE <<>>
\* a variant that stops at the first required column it misses
FirstMissingColumnOf(frame) ==
    LET missing == SelectSeq(RequiredColumns(frame),
                             LAMBDA col : col \notin Range(frame.data_frame.columns))
    IN IF missing = <<>> THEN <<>> ELSE <<missing[1]>>
\* lines 159-161
MissingColumnsOf(frame) ==
    SelectSeq(RequiredColumns(frame),
              LAMBDA col : col \notin Range(frame.data_frame.columns))
\* lines 168-172
HasNonDate(frame) ==
    /\ EFFECTIVE_DATE_TIME \in Range(frame.data_frame.columns)
    /\ \E k \in DOMAIN frame.data_frame.rows :
          ~IsInstanceDate(frame.data_frame.rows[k][EFFECTIVE_DATE_TIME])
\* a variant that asks for strings alone
ColumnHoldsStringsOnly(df, column) ==
    is_string_dtype(df, column)
\* lines 183-185: the test one column of the loop must pass
ColumnHoldsStrings(df, column) ==
    is_string_dtype(df, column) \/ is_object_dtype(df, column)
\* lines 178-186: the columns the loop raises for
NonStringColumns(frame) ==
    {column \in Range(RequiredColumns(frame))
                  \ {EFFECTIVE_DATE_TIME, QUANTITY_VALUE} :
        /\ column \in Range(frame.data_frame.columns)
        /\ ~ColumnHoldsStrings(frame.data_frame, column)}

\* every outcome validate_columns can have on a frame.  The loop of line 178
\* runs over a set, whose order is not fixed: of several columns that do not
\* hold strings any one may be the one reported
ValidateColumnsOutcomes(frame) ==
    IF MissingColumnsOf(frame) # <<>>
    THEN {Raise("ValueError",
                <<MsgMissing>> \o MissingColumnsOf(frame))}
    ELSE IF HasNonDate(frame)
    THEN {Raise("ValueError", <<MsgNotDate>>)}
    ELSE IF NonStringColumns(frame) # {}
    THEN {Raise("ValueError", <<MsgNotStrings, column>>) :
             column \in NonStringColumns(frame)}
    ELSE {Return(Bool(TRUE))}

\* ------------------------------------------------- flatten_fhir_resources
\* lines 379-382: the classes registered by the str value of a resource type
FlattenerClasses == {Text(OBSERVATION.value)}

\* a variant without the test for an empty batch: resources[0] raises
DispatchUnguarded(batch) ==
    IF batch = <<>> THEN Raise("IndexError", <<"list index out of range">>)
    ELSE IF batch[1].resource_type \notin FlattenerClasses
    THEN Raise("ValueError", <<MsgNoFlattener>>)
    ELSE [t |-> "flatten", flattener |-> ResourceFlattenerInit(OBSERVATION)]
\* lines 373-385, what the function does before it calls a flattener:
\* return None, raise, or go on to flatten
Dispatch(batch) ==
    IF batch = <<>> THEN Return(None)
    ELSE LET resource_type == batch[1].resource_type
         IN IF resource_type \notin FlattenerClasses
            THEN IF HasName(resource_type)
                 THEN Raise("ValueError",
                            <<MsgNoFlattener, resource_type.name>>)
                 ELSE Raise("AttributeError", <<"name">>)
            ELSE [t |-> "flatten", flattener |-> ResourceFlattenerInit(OBSERVATION)]

\* a variant that puts the new row first
PrependEntry(flattened_data, flattened_entry) ==
    <<flattened_entry>> \o flattened_data
\* line 343
AppendEntry(flattened_data, flattened_entry) ==
    Append(flattened_data, flattened_entry)

\* line 350, after lines 345-348
FlattenResult(flattened_data) ==
    LET flattened_df == FlattenedFrame(flattened_data)
    IN IF flattened_df.t = "raise" THEN flattened_df
       ELSE FHIRDataFrameInit(flattened_df.value, OBSERVATION)

\* ------------------------------------------------ inputs of direct calls
\* a resource type of some other enumeration: it has a name and no entry
PATIENT == [t |-> "OtherResourceType", name |-> "PATIENT", value |-> "Patient"]
Kinds == FHIRResourceType \cup {Text("Observation"), Text("Patient"), PATIENT}

RowOf(user, day, loinc, value) ==
    [UserId |-> user, EffectiveDateTime |-> day, QuantityName |-> Text("Heart Rate"),
     QuantityUnit |-> Text("beats/minute"), QuantityValue |-> value,
     LoincCode |-> loinc, Display |-> Text("Heart rate"),
     AppleHealthKitCode |-> Text("HKQuantityTypeIdentifierHeartRate")]
\* rows of hand-built tables: the typed cells varied against a well-formed row
Rows ==
    {RowOf(u, Date(2024, 1, 15), l, Num(72)) :
        u \in {Text("u1"), Num(1)}, l \in {Text("8867-4"), Num(8867)}}
    \cup {RowOf(Text("u1"), d, Text("8867-4"), Num(72)) :
        d \in {Date(2024, 1, 16), DateTime(2024, 1, 15, 10), NaT, None,
               Text("2024-01-15")}}
    \cup {RowOf(Text("u1"), Date(2024, 1, 15), Text("8867-4"), Text("72"))}
\* the columns a hand-built table may lack
Dropped == SUBSET {QUANTITY_VALUE, EFFECTIVE_DATE_TIME, DISPLAY}
Tables ==
    {DataFrame(SelectSeq(ObservationColumns, LAMBDA c : c \notin drop), rows) :
        drop \in Dropped, rows \in SeqsUpTo(Rows, MaxRows)}

\* --------------------------------------------------------- DataVisualizer
\* the defaults of DataVisualizer.__init__
DefaultYLower == 50
DefaultYUpper == 1000
DefaultDpi == 300

\* DataVisualizer.__init__, lines 52-60
DataVisualizerInit ==
    [start_date |-> None, end_date |-> None, user_ids |-> None,
     y_lower |-> DefaultYLower, y_upper |-> DefaultYUpper,
     combine_plots |-> TRUE, dpi |-> DefaultDpi]

\* datetime.strptime(v, "%Y-%m-%d").date(): the day of a str that is a day
\* and nothing more, ValueError for another str, TypeError for what is no str
Strptime(v) ==
    IF v.t # "str" THEN Raise("TypeError", <<"strptime() argument 1 must be str">>)
    ELSE IF Parses(v) /\ v.hh = -1 THEN Return(Date(v.y, v.m, v.d))
    ELSE Raise("ValueError", <<"time data does not match format">>)

DayNumber(day) == day.y * 10000 + day.m * 100 + day.d

\* lines 123-126: the rows whose day lies in [start, end].  The cells are
\* compared with a date one by one, which Python does for a date alone: the
\* comparison of a datetime or NaT cell with a date raises TypeError
RowsInRange(rows, start, end) ==
    IF \E k \in DOMAIN rows : rows[k].EffectiveDateTime.t # "date"
    THEN Raise("TypeError", <<"cannot compare with datetime.date">>)
    ELSE Return(SelectSeq(rows, LAMBDA row :
            /\ DayNumber(row.EffectiveDateTime) >= DayNumber(start)
            /\ DayNumber(row.EffectiveDateTime) <= DayNumber(end)))

\* Series.unique(): the values in the order they first appear
RECURSIVE Unique(_)
Unique(cells) ==
    IF cells = <<>> THEN <<>>
    ELSE LET front == Unique(SubSeq(cells, 1, Len(cells) - 1))
             last == cells[Len(cells)]
         IN IF last \in Range(front) THEN front ELSE Append(front, last)

\* Series.nunique(): the number of distinct values, missing ones not counted
NUnique(cells) == Cardinality(Range(cells) \ {None, NaN, NaT})

RECURSIVE SumValues(_)
SumValues(rows) ==
    IF rows = <<>> THEN 0
    ELSE rows[1].QuantityValue.n + SumValues(Tail(rows))

\* lines 135-140 and 166-171: the rows of one user, their QuantityValue summed
\* by day
UserRows(rows, uid) == SelectSeq(rows, LAMBDA row : row.UserId = uid)
Aggregated(rows, uid) ==
    LET user_df == UserRows(rows, uid)
        days == {user_df[k].EffectiveDateTime : k \in DOMAIN user_df}
    IN [day \in days |->
           SumValues(SelectSeq(user_df, LAMBDA row : row.EffectiveDateTime = day))]

\* one plt.bar call: the label of a user and the bars under it
Bar(rows, uid) == [label |-> uid, data |-> Aggregated(rows, uid)]

\* lines 133-160: the one figure of all users
CombinedFigure(self, rows, users) ==
    [t |-> "Figure", dpi |-> self.dpi,
     ylim |-> <<self.y_lower, self.y_upper>>,
     bars |-> [k \in DOMAIN users |-> Bar(rows, users[k])],
     title |-> <<rows[1].QuantityName, self.start_date, self.end_date>>,
     ylabel |-> <<rows[1].QuantityName, rows[1].QuantityUnit>>]
\* lines 165-190: the figure of one user; plt.ylim is not called for it
UserFigure(self, rows, uid) ==
    [t |-> "Figure", dpi |-> self.dpi,
     ylim |-> <<>>,
     bars |-> <<Bar(rows, uid)>>,
     title |-> <<UserRows(rows, uid)[1].QuantityName, uid,
                 self.start_date, self.end_date>>,
     ylabel |-> <<UserRows(rows, uid)[1].QuantityName,
                  UserRows(rows, uid)[1].QuantityUnit>>]

\* what a call of create_static_plot leaves: its outcome, the visualizer, the
\* figures shown, the messages printed and users_to_plot (None when the call
\* ended before line 128)
Left(outcome, self, shown, messages, users) ==
    [ret |-> outcome, self |-> self, figures |-> shown, printed |-> messages,
     users_to_plot |-> users]

IndexError == Raise("IndexError", <<"single positional indexer is out-of-bounds">>)

\* lines 128-195: the plots of the rows that are left, and the return
Plots(self, rows) ==
    LET users == IF self.user_ids # None /\ self.user_ids.items # <<>>
                 THEN self.user_ids.items
                 ELSE Unique([k \in DOMAIN rows |-> rows[k].UserId])
    IN IF self.combine_plots
       THEN IF rows = <<>>
            THEN Left(IndexError, self, <<>>, <<>>, List(users))
            ELSE LET fig == CombinedFigure(self, rows, users)
                 IN Left(Return(fig), self, <<fig>>, <<>>, List(users))
       ELSE LET empty == {k \in DOMAIN users : UserRows(rows, users[k]) = <<>>}
                done == IF empty = {} THEN Len(users)
                        ELSE (CHOOSE k \in empty : \A j \in empty : k <= j) - 1
                shown == [k \in 1..done |-> UserFigure(self, rows, users[k])]
            IN IF empty # {} THEN Left(IndexError, self, shown, <<>>, List(users))
               ELSE IF Len(users) = 1
               THEN Left(Return(shown[1]), self, shown, <<>>, List(users))
               ELSE Left(Raise("UnboundLocalError", <<"fig">>), self, shown, <<>>,
                         List(users))

\* lines 117-126: the dates of the visualizer parsed and stored back, and the
\* rows filtered when both are set
FilteredPlots(self, rows) ==
    LET start == IF Truthy(self.start_date) THEN Strptime(self.start_date)
                 ELSE Return(self.start_date)
    IN IF start.t = "raise" THEN Left(start, self, <<>>, <<>>, None)
       ELSE LET self1 == [self EXCEPT !.start_date = start.value]
                end == IF Truthy(self1.end_date) THEN Strptime(self1.end_date)
                       ELSE Return(self1.end_date)
            IN IF end.t = "raise" THEN Left(end, self1, <<>>, <<>>, None)
               ELSE LET self2 == [self1 EXCEPT !.end_date = end.value]
                    IN IF Truthy(self2.start_date) /\ Truthy(self2.end_date)
                       THEN LET kept == RowsInRange(rows, self2.start_date,
                                                    self2.end_date)
                            IN IF kept.t = "raise"
                               THEN Left(kept, self2, <<>>, <<>>, None)
                               ELSE Plots(self2, kept.value)
                       ELSE Plots(self2, rows)

\* FHIRDataProcessor.validate_columns(frame), line 116: the frame's own
\* validate_columns, whose error it lets through
ProcessorValidateColumns(fhir_frame) == ValidateColumnsOutcomes(fhir_frame)

MsgDateType == "The date type should be of type date."
MsgLoincCodes == "Error: More than one unique LoincCode found."

\* every way a call of create_static_plot(fhir_frame), lines 103-195, can end
CreateStaticPlot(self, fhir_frame) ==
    LET df == fhir_frame.data_frame
    IN IF EFFECTIVE_DATE_TIME \notin Range(df.columns)
       THEN {Left(Raise("KeyError", <<EFFECTIVE_DATE_TIME>>), self, <<>>, <<>>, None)}
       ELSE IF df.rows = <<>> THEN {Left(IndexError, self, <<>>, <<>>, None)}
       ELSE IF ~IsInstanceDate(df.rows[1][EFFECTIVE_DATE_TIME])
       THEN {Left(Return(None), self, <<>>, <<MsgDateType>>, None)}
       ELSE IF LOINC_CODE \notin Range(df.columns)
       THEN {Left(Raise("KeyError", <<LOINC_CODE>>), self, <<>>, <<>>, None)}
       ELSE IF NUnique([k \in DOMAIN df.rows |-> df.rows[k][LOINC_CODE]]) # 1
       THEN {Left(Return(None), self, <<>>, <<MsgLoincCodes>>, None)}
       ELSE {IF valid.t = "raise" THEN Left(valid, self, <<>>, <<>>, None)
             ELSE FilteredPlots(self, df.rows) :
                valid \in ProcessorValidateColumns(fhir_frame)}

\* ------------------------------------------------------------ the state
\* pc          "idle" between calls, "flatten" inside ObservationFlattener.flatten
\* op          the function called last
\* resources   the batch of the flatten call, args the arguments of another call
\* idx         the position of the loop of flatten in resources
\* flattened_data  the rows flatten has collected
\* frame       the FHIRDataFrame the last call returned, None when it returned none
\* ret         the outcome of the last call, None while a call runs
\* visualizer  the DataVisualizer, its configuration in its fields
\* figures     the figures the last call showed, in the order shown
\* printed     the messages the last call printed
\* users_to_plot  the local of that name as the last call left it, None when
\*             the call ended before binding it
\* A run is one call on inputs of its own, and then validate_columns on the
\* frame that call returned: the calls share no state, so a run of several
\* calls shows nothing that the runs of each do not.
VARIABLES pc, op, resources, args, idx, flattened_data, frame, ret,
          visualizer, figures, printed, users_to_plot

vars == <<pc, op, resources, args, idx, flattened_data, frame, ret,
          visualizer, figures, printed, users_to_plot>>

\* what the calls of the flattening module leave alone
plots == <<visualizer, figures, printed, users_to_plot>>

Fresh == pc = "idle" /\ op = "none"

Init ==
    /\ pc = "idle"
    /\ op = "none"
    /\ resources = <<>>
    /\ args = None
    /\ idx = 0
    /\ flattened_data = <<>>
    /\ frame = None
    /\ ret = None
    /\ visualizer = DataVisualizerInit
    /\ figures = <<>>
    /\ printed = <<>>
    /\ users_to_plot = None

\* flatten_fhir_resources(batch), up to the call of the flattener it selects
CallFlattenFhirResources ==
    /\ Fresh
    /\ \E batch \in Batches :
        LET d == Dispatch(batch)
        IN /\ op' = "flatten_fhir_resources"
           /\ resources' = batch
           /\ args' = None
           /\ flattened_data' = <<>>
           /\ frame' = None
           /\ IF d.t = "flatten"
              THEN pc' = "flatten" /\ idx' = 1 /\ ret' = None
              ELSE pc' = "idle" /\ idx' = 0 /\ ret' = d
    /\ UNCHANGED plots

\* ObservationFlattener().flatten(batch) called directly
CallFlatten ==
    /\ Fresh
    /\ \E batch \in Batches :
        /\ op' = "flatten"
        /\ resources' = batch
        /\ args' = None
        /\ flattened_data' = <<>>
        /\ frame' = None
        /\ pc' = "flatten" /\ idx' = 1 /\ ret' = None
    /\ UNCHANGED plots

\* a variant that passes over a record it cannot flatten
FlattenStepSkipping ==
    /\ pc = "flatten"
    /\ idx <= Len(resources)
    /\ LET flattened_entry == FlattenEntry(resources[idx])
       IN flattened_data' =
             IF flattened_entry.t = "raise" THEN flattened_data
             ELSE AppendEntry(flattened_data, flattened_entry.value)
    /\ idx' = idx + 1
    /\ UNCHANGED <<pc, ret, op, resources, args, frame, plots>>

\* one pass of the loop of flatten: a row more, or the exception that ends
\* the call
FlattenStep ==
    /\ pc = "flatten"
    /\ idx <= Len(resources)
    /\ LET flattened_entry == FlattenEntry(resources[idx])
       IN IF flattened_entry.t = "raise"
          THEN /\ ret' = flattened_entry
               /\ pc' = "idle"
               /\ UNCHANGED <<idx, flattened_data>>
          ELSE /\ flattened_data' = AppendEntry(flattened_data, flattened_entry.value)
               /\ idx' = idx + 1
               /\ UNCHANGED <<pc, ret>>
    /\ UNCHANGED <<op, resources, args, frame, plots>>

\* the loop is over: the frame is built and returned
FlattenReturn ==
    /\ pc = "flatten"
    /\ idx > Len(resources)
    /\ ret' = FlattenResult(flattened_data)
    /\ frame' = IF ret'.t = "return" THEN ret'.value ELSE None
    /\ pc' = "idle"
    /\ UNCHANGED <<op, resources, args, idx, flattened_data, plots>>

\* FHIRDataFrame(table, kind)
CallFHIRDataFrame ==
    /\ Fresh
    /\ \E table \in Tables, kind \in Kinds :
        /\ op' = "FHIRDataFrame"
        /\ args' = [data |-> table, resource_type |-> kind]
        /\ ret' = FHIRDataFrameInit(table, kind)
        /\ frame' = IF ret'.t = "return" THEN ret'.value ELSE None
    /\ resources' = <<>> /\ idx' = 0 /\ flattened_data' = <<>>
    /\ UNCHANGED <<pc, plots>>

\* ResourceFlattener(kind)
CallResourceFlattener ==
    /\ Fresh
    /\ \E kind \in Kinds :
        /\ op' = "ResourceFlattener"
        /\ args' = [resource_type |-> kind]
        /\ ret' = ResourceFlattenerInit(kind)
    /\ frame' = None /\ resources' = <<>> /\ idx' = 0 /\ flattened_data' = <<>>
    /\ UNCHANGED <<pc, plots>>

\* frame.validate_columns() on the frame the last call returned
CallValidateColumns ==
    /\ pc = "idle"
    /\ frame # None
    /\ op' = "validate_columns"
    /\ ret' \in ValidateColumnsOutcomes(frame)
    /\ UNCHANGED <<pc, resources, args, idx, flattened_data, frame, plots>>

Next ==
    \/ CallFlattenFhirResources
    \/ CallFlatten
    \/ FlattenStep
    \/ FlattenReturn
    \/ CallFHIRDataFrame
    \/ CallResourceFlattener
    \/ CallValidateColumns

Spec == Init /\ [][Next]_vars

\* ------------------------------------------- the calls of the DataVisualizer
\* rows of the tables handed to create_static_plot: two users, two days in
\* January and one in March, a second LoincCode, and first cells of each type
PlotRow(user, day, loinc, value) == RowOf(Text(user), day, Text(loinc), Num(value))
PlotTables ==
    LET a == PlotRow("u1", Date(2024, 1, 15), "8867-4", 72)
        b == PlotRow("u1", Date(2024, 1, 15), "8867-4", 80)
        c == PlotRow("u2", Date(2024, 1, 16), "8867-4", 60)
        late == PlotRow("u1", Date(2024, 3, 1), "8867-4", 90)
        other == PlotRow("u1", Date(2024, 1, 15), "9999-9", 72)
        timed == PlotRow("u1", DateTime(2024, 1, 15, 10), "8867-4", 72)
        text == RowOf(Text("u1"), Text("2024-01-15"), Text("8867-4"), Num(72))
        none == RowOf(Text("u1"), None, Text("8867-4"), Num(72))
    IN {DataFrame(ObservationColumns, rows) :
           rows \in {<<>>, <<a>>, <<a, b>>, <<a, c>>, <<a, b, c>>, <<late>>,
                     <<a, late>>, <<a, other>>, <<timed>>, <<timed, other>>,
                     <<a, timed>>, <<text>>, <<text, other>>, <<none>>}}
       \cup {DataFrame(SelectSeq(ObservationColumns,
                                 LAMBDA col : col # EFFECTIVE_DATE_TIME), <<a>>)}
PlotFrames == {FHIRDataFrameInit(table, OBSERVATION).value : table \in PlotTables}

\* the arguments of the setters
DateRanges ==
    {<<None, None>>,
     <<IsoText(2024, 1, 1, -1), IsoText(2024, 1, 31, -1)>>,
     <<IsoText(2024, 1, 1, 0), IsoText(2024, 1, 31, -1)>>}
UserIdLists ==
    {None, List(<<Text("u1")>>), List(<<Text("u1"), Text("u2")>>),
     List(<<Text("u3"), Text("u1")>>)}
YBounds == {<<DefaultYLower, DefaultYUpper>>, <<0, 200>>}
Dpis == {DefaultDpi, 100}

\* a DataVisualizer just constructed, and a frame to plot
InitViz ==
    /\ pc = "idle"
    /\ op = "DataVisualizer"
    /\ resources = <<>>
    /\ args = None
    /\ idx = 0
    /\ flattened_data = <<>>
    /\ frame \in PlotFrames
    /\ ret = None
    /\ visualizer = DataVisualizerInit
    /\ figures = <<>>
    /\ printed = <<>>
    /\ users_to_plot = None

\* what a setter leaves but for the field it sets: it returns None, shows
\* and prints nothing
Returned(name) ==
    /\ op' = name
    /\ ret' = Return(None)
    /\ figures' = <<>>
    /\ printed' = <<>>
    /\ users_to_plot' = None
    /\ UNCHANGED <<pc, resources, args, idx, flattened_data, frame>>

\* set_date_range(start_date, end_date), lines 62-65
set_date_range ==
    /\ \E range \in DateRanges :
        visualizer' = [visualizer EXCEPT !.start_date = range[1],
                                         !.end_date = range[2]]
    /\ Returned("set_date_range")

\* set_user_ids(user_ids), lines 67-69
set_user_ids ==
    /\ \E user_ids \in UserIdLists :
        visualizer' = [visualizer EXCEPT !.user_ids = user_ids]
    /\ Returned("set_user_ids")

\* set_y_bounds(y_lower, y_upper), lines 71-74
set_y_bounds ==
    /\ \E bounds \in YBounds :
        visualizer' = [visualizer EXCEPT !.y_lower = bounds[1],
                                         !.y_upper = bounds[2]]
    /\ Returned("set_y_bounds")

\* set_combine_plots(combine_plots), lines 76-80
set_combine_plots ==
    /\ \E combine_plots \in BOOLEAN :
        visualizer' = [visualizer EXCEPT !.combine_plots = combine_plots]
    /\ Returned("set_combine_plots")

\* set_dpi(dpi), lines 82-84
set_dpi ==
    /\ \E dpi \in Dpis : visualizer' = [visualizer EXCEPT !.dpi = dpi]
    /\ Returned("set_dpi")

\* create_static_plot(frame), lines 86-195
create_static_plot ==
    /\ \E left \in CreateStaticPlot(visualizer, frame) :
        /\ ret' = left.ret
        /\ visualizer' = left.self
        /\ figures' = left.figures
        /\ printed' = left.printed
        /\ users_to_plot' = left.users_to_plot
    /\ op' = "create_static_plot"
    /\ UNCHANGED <<pc, resources, args, idx, flattened_data, frame>>

NextViz ==
    \/ set_date_range
    \/ set_user_ids
    \/ set_y_bounds
    \/ set_combine_plots
    \/ set_dpi
    \/ create_static_plot

SpecViz == InitViz /\ [][NextViz]_vars

\* ------------------------------------------------------------ properties
\* a call of flatten, directly or through flatten_fhir_resources, has ended
FlattenEnded ==
    /\ pc = "idle"
    /\ \/ op = "flatten"
       \/ op = "flatten_fhir_resources" /\ resources # <<>>
          /\ resources[1].resource_type = Text("Observation")
\* ... and has returned a frame
FlattenReturned == FlattenEnded /\ ret.t = "return"

\* the record meets the input contract of the flattener
WellFormed(r) ==
    /\ r.code # None /\ r.code.coding # None
    /\ \A k \in DOMAIN r.code.coding.items :
          r.code.coding.items[k].code # None /\ r.code.coding.items[k].display # None
    /\ r.subject # None /\ r.subject.id # None
    /\ r.valueQuantity # None
    /\ r.valueQuantity.unit # None /\ r.valueQuantity.value # None

CodingOf(r) == r.code.coding.items

\* C1: every row flatten collects takes its four coding cells from the
\* coding list of its record by the length of that list alone: all "" for an
\* empty list, code and display of the only entry for a list of one, LoincCode
\* and Display of the first entry and AppleHealthKitCode and QuantityName of
\* the second for a longer list, whatever follows the second entry.
C1_CodingCells ==
    \A i \in DOMAIN flattened_data :
        LET coding == CodingOf(resources[i])
            row == flattened_data[i]
            cells == <<row.LoincCode, row.Display, row.AppleHealthKitCode,
                       row.QuantityName>>
        IN /\ Len(coding) = 0 =>
                cells = <<Text(""), Text(""), Text(""), Text("")>>
           /\ Len(coding) = 1 =>
                cells = <<coding[1].code, coding[1].display,
                          coding[1].code, coding[1].display>>
           /\ Len(coding) >= 2 =>
                cells = <<coding[1].code, coding[1].display,
                          coding[2].code, coding[2].display>>

\* C1 witness: a frame was returned for a batch with a coding list of one
\* entry and one of three
C1_Witness ==
    /\ FlattenReturned
    /\ \E i, j \in DOMAIN flattened_data :
          Len(CodingOf(resources[i])) = 1 /\ Len(CodingOf(resources[j])) = 3

\* the row flatten returns for a record flattened on its own
RowAlone(r) == FlattenResult(<<FlattenEntry(r).value>>).value.data_frame.rows[1]

HasPeriodStart(r) == r.effectivePeriod # None /\ r.effectivePeriod.start # None

Lacking(r) ==
    \/ r.code = None
    \/ r.code.coding = None
    \/ r.subject = None
    \/ r.valueQuantity = None
\* ... or subject.id
LackingAsStated(r) == Lacking(r) \/ r.subject.id = None

\* the fields whose absence flatten raises for, and their absence in a record
FieldAbsent(r, field) ==
    CASE field = "code" -> r.code = None
      [] field = "coding" -> r.code # None /\ r.code.coding = None
      [] field = "display" ->
            /\ r.code # None /\ r.code.coding # None
            /\ \E k \in DOMAIN CodingOf(r) : CodingOf(r)[k].display = None
      [] field = "id" -> r.subject = None
      [] field = "valueQuantity" -> r.valueQuantity = None
      [] field = "unit" -> r.valueQuantity # None /\ r.valueQuantity.unit = None
      [] field = "value" -> r.valueQuantity # None /\ r.valueQuantity.value = None
      [] OTHER -> FALSE

C5_AsStated ==
    (op = "flatten_fhir_resources" /\ resources # <<>>
        /\ resources[1].resource_type
              \in {Text("QuestionnaireResponse"), QUESTIONNAIRE_RESPONSE})
    => /\ pc = "idle"
       /\ ret.t = "raise"
       /\ ret.exc = "ValueError"
       /\ ret.args[1] = MsgNoFlattener

\* C6: flatten_fhir_resources on an empty batch returns None without raising,
\* and no flattener runs: the loop of flatten is never entered.
C6_EmptyBatch ==
    (op = "flatten_fhir_resources" /\ resources = <<>>)
    => /\ pc = "idle"
       /\ ret = Return(None)
       /\ frame = None
       /\ idx = 0 /\ flattened_data = <<>>

\* C6 witness: flatten_fhir_resources was called on the empty batch
C6_Witness == op = "flatten_fhir_resources" /\ resources = <<>> /\ ret # None

\* the frame under validation has all columns its kind requires
AbsentColumns ==
    {c \in Range(resource_columns[frame.resource_type]) :
        c \notin Range(frame.data_frame.columns)}
Validated == op = "validate_columns" /\ pc = "idle"

\* C7: validate_columns on a frame that lacks columns its kind requires
\* fails with the missing-columns error, which lists each absent required
\* column and no column that is present, whatever the types of the cells.
C7_MissingColumns ==
    (Validated /\ AbsentColumns # {})
    => /\ ret.t = "raise"
       /\ ret.exc = "ValueError"
       /\ ret.args[1] = MsgMissing
       /\ Range(Tail(ret.args)) = AbsentColumns

\* C7 witness: validate_columns ran on a frame lacking two required columns
\* whose EffectiveDateTime column holds a text
C7_Witness ==
    /\ Validated
    /\ AbsentColumns = {"QuantityValue", "Display"}
    /\ \E k \in DOMAIN frame.data_frame.rows :
          frame.data_frame.rows[k].EffectiveDateTime.t = "str"

\* a date value: a day without time of day, or the missing value
IsDateValue(cell) == cell.t = "date" \/ cell = NaT \/ cell = None

\* C8 as stated: validate_columns on a frame with all required columns fails
\* with a type error when a cell of EffectiveDateTime is not a date value,
\* and succeeds only if every cell of it is a date value.
C8_AsStated ==
    (Validated /\ AbsentColumns = {}
        /\ \E k \in DOMAIN frame.data_frame.rows :
              ~IsDateValue(frame.data_frame.rows[k].EffectiveDateTime))
    => /\ ret.t = "raise"
       /\ ret.args[1] \in {MsgNotDate, MsgNotStrings}

\* the columns validate_columns asks strings of
StringColumns ==
    (Range(resource_columns[frame.resource_type])
        \cap Range(frame.data_frame.columns))
    \ {"EffectiveDateTime", "QuantityValue"}
DatesAccepted ==
    \A k \in DOMAIN frame.data_frame.rows :
        frame.data_frame.rows[k].EffectiveDateTime.t \in {"date", "datetime", "NaTType"}

\* C9 as stated: validate_columns fails with a type error for every required
\* column other than EffectiveDateTime and QuantityValue that holds a value
\* that is no string; QuantityValue is never tested for strings.
C9_AsStated ==
    (Validated /\ AbsentColumns = {})
    => /\ (\E c \in StringColumns : \E k \in DOMAIN frame.data_frame.rows :
               frame.data_frame.rows[k][c].t \notin {"str", "NoneType"})
          => (ret.t = "raise" /\ ret.args[1] \in {MsgNotDate, MsgNotStrings})
       /\ (ret.t = "raise" /\ ret.args[1] = MsgNotStrings)
          => ret.args[2] # "QuantityValue"

\* C9 amended: with all required columns present and the dates accepted,
\* validate_columns fails with the not-strings error exactly when a required
\* column other than EffectiveDateTime and QuantityValue has a dtype that is
\* neither object nor string (a column of numbers alone), and names such a
\* column; a column mixing strings and other values is of dtype object and
\* passes; QuantityValue is never tested for strings.
C9_StringColumns ==
    (Validated /\ AbsentColumns = {} /\ DatesAccepted)
    => LET numeric == {c \in StringColumns :
                          frame.data_frame.dtypes[c] \notin {"object", "string"}}
       IN /\ numeric # {} =>
               /\ ret.t = "raise" /\ ret.exc = "ValueError"
               /\ ret.args[1] = MsgNotStrings
               /\ ret.args[2] \in numeric
          /\ numeric = {} => ret = Return(Bool(TRUE))
          /\ \A c \in StringColumns :
                (/\ frame.data_frame.rows # <<>>
                 /\ \A k \in DOMAIN frame.data_frame.rows :
                        frame.data_frame.rows[k][c].t = "int")
                <=> c \in numeric

\* C9 witness: a frame with a column of numbers alone and a column mixing
\* strings and numbers was rejected for the first
C9_Witness ==
    /\ Validated /\ AbsentColumns = {} /\ DatesAccepted
    /\ ret.t = "raise" /\ ret.args = <<MsgNotStrings, "LoincCode">>
    /\ \E j, k \in DOMAIN frame.data_frame.rows :
          /\ frame.data_frame.rows[j].UserId.t = "str"
          /\ frame.data_frame.rows[k].UserId.t = "int"
    /\ \E k \in DOMAIN frame.data_frame.rows :
          frame.data_frame.rows[k].QuantityValue.t = "int"

\* C10 as stated: for Observation and QuestionnaireResponse the registry
\* holds 8 and 5 columns in a fixed order and FHIRDataFrame(table, kind)
\* returns a frame with the table, the kind and the kind's columns; for
\* every other kind ResourceFlattener(kind) and FHIRDataFrame(table, kind)
\* fail with ValueError and no frame is made.
C10_AsStated ==
    /\ Len(resource_columns[OBSERVATION]) = 8
    /\ Len(resource_columns[QUESTIONNAIRE_RESPONSE]) = 5
    /\ (op = "FHIRDataFrame" /\ args.resource_type \in {OBSERVATION, QUESTIONNAIRE_RESPONSE})
       => /\ ret.t = "return"
          /\ ret.value.data_frame = args.data
          /\ ret.value.resource_type = args.resource_type
          /\ ret.value.resource_columns[args.resource_type] =
                IF args.resource_type = OBSERVATION
                THEN <<"UserId", "EffectiveDateTime", "QuantityName", "QuantityUnit",
                       "QuantityValue", "LoincCode", "Display", "AppleHealthKitCode">>
                ELSE <<"UserId", "EffectiveDateTime", "QuantityName",
                       "QuantityValue", "LoincCode">>
    /\ (op \in {"FHIRDataFrame", "ResourceFlattener"}
           /\ args.resource_type \notin {OBSERVATION, QUESTIONNAIRE_RESPONSE})
       => /\ ret.t = "raise"
          /\ ret.exc = "ValueError"
          /\ frame = None

\* ------------------------------------------------- create_static_plot
\* the frame has a first EffectiveDateTime cell, and a LoincCode column
Plottable(fhir_frame) ==
    /\ {EFFECTIVE_DATE_TIME, LOINC_CODE} \subseteq Range(fhir_frame.data_frame.columns)
    /\ fhir_frame.data_frame.rows # <<>>
FirstDay(fhir_frame) == fhir_frame.data_frame.rows[1][EFFECTIVE_DATE_TIME]
LoincCodes(fhir_frame) ==
    {fhir_frame.data_frame.rows[k][LOINC_CODE] :
        k \in DOMAIN fhir_frame.data_frame.rows} \ {None, NaN, NaT}

\* C11 as stated: a call of create_static_plot on a frame whose first
\* EffectiveDateTime cell is not a date, or that holds more than one distinct
\* LoincCode, returns None, prints a message, shows no figure and leaves the
\* configuration of the visualizer as it was.
C11_AsStated ==
    [][(/\ op' = "create_static_plot"
        /\ Plottable(frame)
        /\ ~IsDateValue(FirstDay(frame)) \/ Cardinality(LoincCodes(frame)) > 1)
       => (/\ ret' = Return(None)
           /\ printed' # <<>>
           /\ figures' = <<>>
           /\ visualizer' = visualizer)]_vars

\* the last call was create_static_plot and it came to plot
Plotted == op = "create_static_plot" /\ users_to_plot # None

\* C12 as stated: a call of create_static_plot that makes a single plot (all
\* users combined, or separate plots of exactly one user) returns that figure,
\* and a call that makes separate plots of no user or of two or more returns
\* None.
C12_AsStated ==
    Plotted =>
        /\ (/\ Len(figures) = 1
            /\ visualizer.combine_plots \/ Len(users_to_plot.items) = 1)
           => ret = Return(figures[1])
        /\ (/\ ~visualizer.combine_plots
            /\ Len(users_to_plot.items) # 1
            /\ Len(figures) = Len(users_to_plot.items))
           => ret = Return(None)

\* C13 as stated: a call of create_static_plot leaves the configuration of the
\* visualizer as it was, and a call that follows a call that returned, with
\* no setter between them, returns and shows the same as that call.
C13_AsStated ==
    [][op' = "create_static_plot"
       => /\ visualizer' = visualizer
          /\ (op = "create_static_plot" /\ ret.t = "return")
             => (ret' = ret /\ figures' = figures)]_vars
====
